---- MODULE Spec2Model ----
(***************************************************************************)
(* A model of job_search.py: the credential store kept in                  *)
(* ~/.job_search/config.json (save_api_key, load_api_key, remove_api_key,  *)
(* get_api_key), the search orchestrator (search_jobs) and the command     *)
(* line dispatch with its "search again" recursion (main).                 *)
(*                                                                         *)
(* Text is a sequence of one-character strings, so that json.dump,         *)
(* json.load, str.strip and "\n".join are computed character by character. *)
(* File permissions, a failing write, end-of-input on a prompt and a       *)
(* keyboard interrupt are outside the model.                               *)
(***************************************************************************)
EXTENDS Integers, Sequences, FiniteSets, TLC

VARIABLES
    fs,         \* the file system: CONFIG_DIR and CONFIG_FILE
    pc,         \* position of the running entry point
    argv,       \* sys.argv[1:], at most one argument is looked at
    api_key,    \* main's local api_key
    keywords,   \* main's local keywords
    location,   \* main's local location
    out,        \* the lines printed by the running call of main (or of a library function)
    exitCode,   \* process exit status, -1 while running
    requests,   \* outbound client.messages.create calls so far
    outcome,    \* the last remote call: none yet, pending, ok, or the exception raised
    again,      \* the last answer to "Search again? (y/n)", lowered and stripped
    prompts,    \* how many times "API Key: " was asked
    searches,   \* how many times main's body ran (the recursion depth)
    message,    \* search_jobs: the content of the response received
    lastOp,     \* library use: the last function called
    ret,        \* library use: what the last call returned
    hist        \* library use: the last call that changed or deleted the credential

vars == <<fs, pc, argv, api_key, keywords, location, out, exitCode, requests,
          outcome, again, prompts, searches, message, lastOp, ret, hist>>

(***************************************************************************)
(* Bounds.                                                                 *)
(***************************************************************************)
MaxSecretLen == 2
MaxSegments == 2
MaxSearches == 2

(***************************************************************************)
(* Characters.                                                             *)
(***************************************************************************)
QUOTE == "\""
BSL == "\\"
NL == "\n"
\* a byte sequence that the locale's text decoding rejects
BAD == "?"
SP == " "

RECURSIVE SeqsUpTo(_, _)
SeqsUpTo(S, n) ==
    IF n = 0 THEN {<<>>}
    ELSE LET shorter == SeqsUpTo(S, n - 1)
         IN  shorter \cup {Append(s, c) : s \in shorter, c \in S}

(***************************************************************************)
(* Python values as far as the program meets them: str, None, int, list,   *)
(* dict.  One record shape for all of them.                                *)
(***************************************************************************)
None == [t |-> "null", s |-> <<>>, n |-> 0, kids |-> <<>>]
Str(s) == [t |-> "str", s |-> s, n |-> 0, kids |-> <<>>]
Num(n) == [t |-> "num", s |-> <<>>, n |-> n, kids |-> <<>>]
Arr(elems) == [t |-> "arr", s |-> <<>>, n |-> 0, kids |-> elems]
Obj(members) == [t |-> "obj", s |-> <<>>, n |-> 0, kids |-> members]

\* Python truth value, as `if not api_key` and `if result` use it
Truthy(v) ==
    CASE v.t = "str" -> v.s # <<>>
      [] v.t = "null" -> FALSE
      [] v.t = "num" -> v.n # 0
      [] OTHER -> v.kids # <<>>

(***************************************************************************)
(* str.strip(): whitespace removed at both ends.                           *)
(***************************************************************************)
Whitespace == {SP, NL}

RECURSIVE LStrip(_)
LStrip(s) == IF s # <<>> /\ Head(s) \in Whitespace THEN LStrip(Tail(s)) ELSE s

RECURSIVE RStrip(_)
RStrip(s) ==
    IF s # <<>> /\ s[Len(s)] \in Whitespace
    THEN RStrip(SubSeq(s, 1, Len(s) - 1))
    ELSE s

Strip(s) == RStrip(LStrip(s))

(***************************************************************************)
(* json.dump({"api_key": api_key}, f)                                      *)
(***************************************************************************)
API_KEY == <<"a", "p", "i", "_", "k", "e", "y">>

EscapeCharNone(c) == <<c>>

EscapeChar(c) ==
    IF c = QUOTE THEN <<BSL, QUOTE>>
    ELSE IF c = BSL THEN <<BSL, BSL>>
    ELSE IF c = NL THEN <<BSL, "n">>
    ELSE <<c>>

RECURSIVE JsonEscape(_)
JsonEscape(s) ==
    IF s = <<>> THEN <<>> ELSE EscapeChar(Head(s)) \o JsonEscape(Tail(s))

JsonString(s) == <<QUOTE>> \o JsonEscape(s) \o <<QUOTE>>

JsonDump(key) ==
    <<"{">> \o JsonString(API_KEY) \o <<":", SP>> \o JsonString(key) \o <<"}">>

(***************************************************************************)
(* json.load(f): a recursive descent over the characters, for objects,     *)
(* arrays, strings with the escapes \" \\ \n, integers and null.           *)
(***************************************************************************)
Fail == [ok |-> FALSE, val |-> None, next |-> 0]
Parsed(v, i) == [ok |-> TRUE, val |-> v, next |-> i]
Digits == {"0", "1"}
DigitVal(c) == IF c = "1" THEN 1 ELSE 0

RECURSIVE SkipWs(_, _)
SkipWs(f, i) == IF i <= Len(f) /\ f[i] \in Whitespace THEN SkipWs(f, i + 1) ELSE i

\* f[i] is the character after the opening quote
RECURSIVE ParseString(_, _, _)
ParseString(f, i, acc) ==
    IF i > Len(f) THEN Fail
    ELSE IF f[i] = QUOTE THEN Parsed(Str(acc), i + 1)
    ELSE IF f[i] = BSL THEN
        IF i + 1 > Len(f) THEN Fail
        ELSE IF f[i + 1] \in {QUOTE, BSL} THEN ParseString(f, i + 2, Append(acc, f[i + 1]))
        ELSE IF f[i + 1] = "n" THEN ParseString(f, i + 2, Append(acc, NL))
        ELSE Fail
    ELSE IF f[i] = NL THEN Fail
    ELSE ParseString(f, i + 1, Append(acc, f[i]))

RECURSIVE ParseDigits(_, _, _)
ParseDigits(f, i, acc) ==
    IF i <= Len(f) /\ f[i] \in Digits
    THEN ParseDigits(f, i + 1, 10 * acc + DigitVal(f[i]))
    ELSE Parsed(Num(acc), i)

ParseNumber(f, i) ==
    IF f[i] = "0"
    THEN IF i + 1 <= Len(f) /\ f[i + 1] \in Digits THEN Fail ELSE Parsed(Num(0), i + 1)
    ELSE ParseDigits(f, i, 0)

IsNullAt(f, i) ==
    /\ i + 3 <= Len(f)
    /\ SubSeq(f, i, i + 3) = <<"n", "u", "l", "l">>

RECURSIVE ParseValue(_, _)
RECURSIVE ParseElements(_, _, _)
RECURSIVE ParseMembers(_, _, _)

\* f[i] is where a value must start (whitespace already skipped)
ParseValue(f, i) ==
    IF i > Len(f) THEN Fail
    ELSE IF f[i] = QUOTE THEN ParseString(f, i + 1, <<>>)
    ELSE IF f[i] \in Digits THEN ParseNumber(f, i)
    ELSE IF IsNullAt(f, i) THEN Parsed(None, i + 4)
    ELSE IF f[i] = "[" THEN
        LET j == SkipWs(f, i + 1)
        IN  IF j <= Len(f) /\ f[j] = "]" THEN Parsed(Arr(<<>>), j + 1)
            ELSE ParseElements(f, j, <<>>)
    ELSE IF f[i] = "{" THEN
        LET j == SkipWs(f, i + 1)
        IN  IF j <= Len(f) /\ f[j] = "}" THEN Parsed(Obj(<<>>), j + 1)
            ELSE ParseMembers(f, j, <<>>)
    ELSE Fail

\* f[i] is where the next element of an array must start
ParseElements(f, i, acc) ==
    LET r == ParseValue(f, i)
    IN  IF ~r.ok THEN Fail
        ELSE LET j == SkipWs(f, r.next)
                 elems == Append(acc, r.val)
             IN  IF j > Len(f) THEN Fail
                 ELSE IF f[j] = "]" THEN Parsed(Arr(elems), j + 1)
                 ELSE IF f[j] = "," THEN ParseElements(f, SkipWs(f, j + 1), elems)
                 ELSE Fail

\* f[i] is where the next member's key must start
ParseMembers(f, i, acc) ==
    IF i > Len(f) \/ f[i] # QUOTE THEN Fail
    ELSE
        LET k == ParseString(f, i + 1, <<>>)
        IN  IF ~k.ok THEN Fail
            ELSE
                LET c == SkipWs(f, k.next)
                IN  IF c > Len(f) \/ f[c] # ":" THEN Fail
                    ELSE
                        LET r == ParseValue(f, SkipWs(f, c + 1))
                        IN  IF ~r.ok THEN Fail
                            ELSE
                                LET j == SkipWs(f, r.next)
                                    members == Append(acc, [k |-> k.val.s, v |-> r.val])
                                IN  IF j > Len(f) THEN Fail
                                    ELSE IF f[j] = "}" THEN Parsed(Obj(members), j + 1)
                                    ELSE IF f[j] = ","
                                         THEN ParseMembers(f, SkipWs(f, j + 1), members)
                                    ELSE Fail

\* the whole text is one value; reading undecodable bytes raises before parsing
JsonLoad(f) ==
    IF \E i \in 1..Len(f) : f[i] = BAD THEN Fail
    ELSE LET r == ParseValue(f, SkipWs(f, 1))
         IN  IF r.ok /\ SkipWs(f, r.next) = Len(f) + 1 THEN r ELSE Fail

\* dict.get(key): the last member of that name wins, None when there is none
RECURSIVE DictGet(_, _)
DictGet(members, key) ==
    IF members = <<>> THEN None
    ELSE LET last == members[Len(members)]
         IN  IF last.k = key THEN last.v
             ELSE DictGet(SubSeq(members, 1, Len(members) - 1), key)

(***************************************************************************)
(* Printed lines.  A line is a tag and, where the line carries program     *)
(* data, that data.                                                        *)
(***************************************************************************)
Msg(tag) == [msg |-> tag, text |-> <<>>]
MsgText(tag, text) == [msg |-> tag, text |-> text]

(***************************************************************************)
(* The credential store.  fs.dir: CONFIG_DIR exists; fs.exists:            *)
(* CONFIG_FILE exists; fs.data: its content.                               *)
(***************************************************************************)
NoFile(dir) == [dir |-> dir, exists |-> FALSE, data |-> <<>>]
File(data) == [dir |-> TRUE, exists |-> TRUE, data |-> data]

ensure_config_dir(f) == [f EXCEPT !.dir = TRUE]

\* after save_api_key(key): the file is rewritten from scratch
save_api_key(f, key) ==
    [ensure_config_dir(f) EXCEPT !.exists = TRUE, !.data = JsonDump(key)]

save_api_key_out == <<Msg("KEY_SAVED")>>

\* an exception leaving the function, where a return value is expected
Raised == [t |-> "raised", s |-> <<>>, n |-> 0, kids |-> <<>>]

\* `except json.JSONDecodeError:` in place of the bare `except:`
load_api_key_narrow(f) ==
    IF ~f.exists THEN None
    ELSE LET r == JsonLoad(f.data)
         IN  IF \E i \in 1..Len(f.data) : f.data[i] = BAD THEN Raised
             ELSE IF ~r.ok THEN None
             ELSE IF r.val.t # "obj" THEN Raised
             ELSE DictGet(r.val.kids, API_KEY)

\* what load_api_key() returns: every exception inside the try gives None
load_api_key(f) ==
    IF ~f.exists THEN None
    ELSE LET r == JsonLoad(f.data)
         IN  IF ~r.ok THEN None
             ELSE IF r.val.t # "obj" THEN None
             ELSE DictGet(r.val.kids, API_KEY)

remove_api_key(f) == IF f.exists THEN [f EXCEPT !.exists = FALSE, !.data = <<>>] ELSE f

remove_api_key_loud(f) == <<Msg("KEY_REMOVED")>>

remove_api_key_out(f) ==
    IF f.exists THEN <<Msg("KEY_REMOVED")>> ELSE <<Msg("NO_KEY_TO_REMOVE")>>

get_api_key_eager(f, raw) ==
    LET answer == Strip(raw)
    IN  [ret |-> Str(answer),
         fs |-> save_api_key(f, answer),
         out |-> <<Msg("NO_KEY_FOUND"), Msg("KEY_HINT"), Msg("PROMPT_API_KEY")>>
                 \o save_api_key_out,
         prompted |-> 1]

\* get_api_key() with `raw` the line the operator types if asked
get_api_key(f, raw) ==
    LET stored == load_api_key(f)
        answer == Strip(raw)
    IN  IF Truthy(stored)
        THEN [ret |-> stored, fs |-> f, out |-> <<>>, prompted |-> 0]
        ELSE [ret |-> Str(answer),
              fs |-> IF answer # <<>> THEN save_api_key(f, answer) ELSE f,
              out |-> <<Msg("NO_KEY_FOUND"), Msg("KEY_HINT"), Msg("PROMPT_API_KEY")>>
                      \o (IF answer # <<>> THEN save_api_key_out ELSE <<>>),
              prompted |-> 1]

(***************************************************************************)
(* Inputs.                                                                 *)
(***************************************************************************)
Secrets == SeqsUpTo({"k", QUOTE, BSL}, MaxSecretLen)
\* lines typed at a prompt
KeyInputs == {<<>>, <<SP>>, <<"k">>, <<SP, "k", SP>>, <<QUOTE, BSL>>}
TermInputs == {<<>>, <<SP>>, <<"k">>, <<SP, "k", SP>>, <<"k", SP, "k">>}
AnswerInputs == {<<"y">>, <<"Y">>, <<SP, "y">>, <<"n">>, <<>>, <<"y", "y">>}

Colon == <<":", SP>>

\* contents the config file may have when the program starts
InitialData ==
    { <<>>,
      <<BAD>>,
      <<"{">> \o JsonString(API_KEY) \o Colon \o <<QUOTE, "k">>,
      <<"[", "]">>,
      <<"n", "u", "l", "l">>,
      JsonString(<<"k">>),
      <<"1">>,
      <<"{", "}">>,
      <<"{">> \o JsonString(<<"k">>) \o Colon \o JsonString(<<"k">>) \o <<"}">>,
      JsonDump(<<>>),
      JsonDump(<<"k">>),
      JsonDump(<<SP>>),
      JsonDump(<<QUOTE, BSL>>),
      <<"{">> \o JsonString(API_KEY) \o Colon \o <<"n", "u", "l", "l", "}">>,
      <<"{">> \o JsonString(API_KEY) \o Colon \o <<"1", "}">>,
      <<SP, "{">> \o JsonString(API_KEY) \o <<":">> \o JsonString(<<"k">>)
          \o <<",", NL>> \o JsonString(API_KEY) \o Colon \o JsonString(<<"k", "k">>)
          \o <<"}", NL>> }

InitialFs == {NoFile(FALSE), NoFile(TRUE)} \cup {File(d) : d \in InitialData}

(***************************************************************************)
(* The functions of the store called one after the other, in any order,    *)
(* as a test or another program importing the module does.                 *)
(***************************************************************************)
NoCall == [cls |-> "none", text |-> <<>>]
Pending == [cls |-> "pending", text |-> <<>>]
Ok == [cls |-> "ok", text |-> <<>>]

NoMutation == [op |-> "none", arg |-> <<>>, over |-> FALSE]
\* a save of `s` on store `f`; over: it replaced another secret that was loadable
Saved(f, s) == [op |-> "save", arg |-> s, over |-> Truthy(load_api_key(f)) /\ load_api_key(f) # Str(s)]
Removed == [op |-> "remove", arg |-> <<>>, over |-> FALSE]

InitLocals ==
    /\ api_key = None
    /\ keywords = <<>>
    /\ location = <<>>
    /\ out = <<>>
    /\ exitCode = -1
    /\ requests = 0
    /\ outcome = NoCall
    /\ again = <<>>
    /\ prompts = 0
    /\ searches = 0
    /\ message = <<>>
    /\ lastOp = "none"
    /\ ret = None
    /\ hist = NoMutation

mainVars == <<pc, argv, api_key, keywords, location, exitCode, requests, outcome,
              again, searches, message>>

InitStore ==
    /\ fs \in InitialFs
    /\ pc = "lib"
    /\ argv = <<>>
    /\ InitLocals

CallSave(s) ==
    /\ pc = "lib"
    /\ fs' = save_api_key(fs, s)
    /\ out' = save_api_key_out
    /\ lastOp' = "save"
    /\ ret' = None
    /\ hist' = Saved(fs, s)
    /\ UNCHANGED <<mainVars, prompts>>

CallLoad ==
    /\ pc = "lib"
    /\ ret' = load_api_key(fs)
    /\ out' = <<>>
    /\ lastOp' = "load"
    /\ UNCHANGED <<fs, hist, mainVars, prompts>>

CallRemove ==
    /\ pc = "lib"
    /\ fs' = remove_api_key(fs)
    /\ out' = remove_api_key_out(fs)
    /\ lastOp' = "remove"
    /\ ret' = None
    /\ hist' = Removed
    /\ UNCHANGED <<mainVars, prompts>>

CallGetApiKey(raw) ==
    /\ pc = "lib"
    /\ LET g == get_api_key(fs, raw)
       IN  /\ fs' = g.fs
           /\ out' = g.out
           /\ ret' = g.ret
           /\ prompts' = g.prompted
           /\ hist' = IF g.prompted = 1 /\ Truthy(g.ret) THEN Saved(fs, g.ret.s) ELSE hist
    /\ lastOp' = "get"
    /\ UNCHANGED mainVars

NextStore ==
    \/ \E s \in Secrets : CallSave(s)
    \/ CallLoad
    \/ CallRemove
    \/ \E raw \in KeyInputs : CallGetApiKey(raw)

StoreSpec == InitStore /\ [][NextStore]_vars

(***************************************************************************)
(* search_jobs: the response's segments and what is printed for them.      *)
(***************************************************************************)
TextSeg(text) == [type |-> "text", text |-> text]
\* a non-text segment; its payload is never read
ToolSeg == [type |-> "server_tool_use", text |-> <<"X">>]
Segments == {TextSeg(<<>>), TextSeg(<<"A">>), TextSeg(<<"B">>), ToolSeg}
Contents == SeqsUpTo(Segments, MaxSegments)

\* for block in message.content: if block.type == "text": append(block.text)
RECURSIVE full_response_all(_)
full_response_all(content) ==
    IF content = <<>> THEN <<>>
    ELSE <<Head(content).text>> \o full_response_all(Tail(content))

RECURSIVE full_response(_)
full_response(content) ==
    IF content = <<>> THEN <<>>
    ELSE (IF Head(content).type = "text" THEN <<Head(content).text>> ELSE <<>>)
         \o full_response(Tail(content))

\* "\n".join(parts)
RECURSIVE Join(_)
Join(parts) ==
    IF parts = <<>> THEN <<>>
    ELSE IF Len(parts) = 1 THEN parts[1]
    ELSE Head(parts) \o <<NL>> \o Join(Tail(parts))

search_result_always(content) ==
    <<Msg("SEPARATOR"), MsgText("RESULT", Join(full_response(content))), Msg("SEPARATOR")>>

\* lines 107-114: what a response makes search_jobs print
search_result(content) ==
    LET result == Join(full_response(content))
    IN  IF result # <<>>
        THEN <<Msg("SEPARATOR"), MsgText("RESULT", result), Msg("SEPARATOR")>>
        ELSE <<Msg("NO_RESULTS")>>

\* what the remote call may raise
AuthError == [cls |-> "AuthenticationError", text |-> <<"a">>]
Errors ==
    { AuthError,
      [cls |-> "PermissionDeniedError", text |-> <<"p">>],
      [cls |-> "APIConnectionError", text |-> <<"c">>],
      [cls |-> "TypeError", text |-> <<>>] }

search_error_all_auth(e) == <<Msg("INVALID_KEY"), Msg("RESET_KEY_HINT")>>

\* lines 116-122: what an exception makes search_jobs print before sys.exit(1)
search_error(e) ==
    IF e.cls = "AuthenticationError"
    THEN <<Msg("INVALID_KEY"), Msg("RESET_KEY_HINT")>>
    ELSE <<MsgText("ERROR", e.text)>>

(***************************************************************************)
(* main.                                                                   *)
(***************************************************************************)
LowerChar(c) ==
    CASE c = "H" -> "h"
      [] c = "Y" -> "y"
      [] c = "R" -> "r"
      [] OTHER -> c

Lower(s) == [i \in 1..Len(s) |-> LowerChar(s[i])]

HELP == <<"-", "-", "h", "e", "l", "p">>
H == <<"-", "h">>
SAVE_KEY == <<"-", "-", "s", "a", "v", "e", "-", "k", "e", "y">>
RESET_KEY == <<"-", "-", "r", "e", "s", "e", "t", "-", "k", "e", "y">>

Argvs ==
    { <<>>,
      <<HELP>>,
      <<H>>,
      <<<<"-", "-", "H", "e", "l", "p">>>>,
      <<SAVE_KEY>>,
      <<RESET_KEY>>,
      <<<<"-", "-", "R", "e", "s", "e", "t", "-", "k", "e", "y">>, SAVE_KEY>>,
      <<<<"-", "-", "k">>>>,
      <<<<>>>> }

Init ==
    /\ fs \in InitialFs
    /\ argv \in Argvs
    /\ pc = "main"
    /\ InitLocals

libVars == <<lastOp, ret, hist>>

\* sys.exit(code), and main returning to the interpreter (code 0)
Exit(code) ==
    /\ pc' = "done"
    /\ exitCode' = code

\* line 174: `if not api_key`
KeyMissingIsNone(k) == k.t = "null"

KeyMissing(k) == ~Truthy(k)

\* line 187: `if not keywords or not location`
MissingInputBoth(kw, loc) == kw = <<>> /\ loc = <<>>

MissingInput(kw, loc) == kw = <<>> \/ loc = <<>>

\* lines 153-155
Help ==
    /\ pc = "main"
    /\ argv # <<>>
    /\ Lower(argv[1]) \in {HELP, H}
    /\ out' = out \o <<Msg("HELP_TEXT")>>
    /\ Exit(0)
    /\ UNCHANGED <<fs, argv, api_key, keywords, location, requests, outcome, again,
                   prompts, searches, message, libVars>>

\* lines 156-163
SaveKey(raw) ==
    /\ pc = "main"
    /\ argv # <<>>
    /\ Lower(argv[1]) = SAVE_KEY
    /\ LET answer == Strip(raw)
       IN  /\ api_key' = Str(answer)
           /\ IF answer # <<>>
              THEN /\ fs' = save_api_key(fs, answer)
                   /\ out' = out \o <<Msg("ENTER_KEY"), Msg("PROMPT_API_KEY")>>
                                 \o save_api_key_out
              ELSE /\ fs' = fs
                   /\ out' = out \o <<Msg("ENTER_KEY"), Msg("PROMPT_API_KEY"),
                                       Msg("NO_KEY_ENTERED")>>
    /\ prompts' = prompts + 1
    /\ Exit(0)
    /\ UNCHANGED <<argv, keywords, location, requests, outcome, again, searches, message,
                   libVars>>

\* lines 164-166
ResetKey ==
    /\ pc = "main"
    /\ argv # <<>>
    /\ Lower(argv[1]) = RESET_KEY
    /\ fs' = remove_api_key(fs)
    /\ out' = out \o remove_api_key_out(fs)
    /\ Exit(0)
    /\ UNCHANGED <<argv, api_key, keywords, location, requests, outcome, again,
                   prompts, searches, message, libVars>>

\* lines 167-170
UnknownArg ==
    /\ pc = "main"
    /\ argv # <<>>
    /\ Lower(argv[1]) \notin {HELP, H, SAVE_KEY, RESET_KEY}
    /\ out' = out \o <<MsgText("UNKNOWN_ARGUMENT", Lower(argv[1])), Msg("USE_HELP")>>
    /\ Exit(0)
    /\ UNCHANGED <<fs, argv, api_key, keywords, location, requests, outcome, again,
                   prompts, searches, message, libVars>>

\* lines 172-184, up to the first input() of the search parameters
GetKey(raw) ==
    /\ pc = "main"
    /\ argv = <<>>
    /\ LET g == get_api_key(fs, raw)
       IN  /\ fs' = g.fs
           /\ api_key' = g.ret
           /\ prompts' = prompts + g.prompted
           /\ IF KeyMissing(g.ret)
              THEN /\ out' = out \o g.out \o <<Msg("KEY_REQUIRED")>>
                   /\ Exit(1)
              ELSE /\ out' = out \o g.out
                                 \o <<Msg("BLANK_SEPARATOR"), Msg("TITLE"), Msg("SEPARATOR"),
                                      Msg("ENTER_DETAILS"), Msg("PROMPT_KEYWORDS")>>
                   /\ pc' = "inputs"
                   /\ exitCode' = exitCode
    /\ searches' = searches + 1
    /\ UNCHANGED <<argv, keywords, location, requests, outcome, again, message, libVars>>

\* lines 184-192 and 67-99: both answers are read, then search_jobs sends the request
EnterSearch(kw, loc) ==
    /\ pc = "inputs"
    /\ keywords' = Strip(kw)
    /\ location' = Strip(loc)
    /\ IF MissingInput(Strip(kw), Strip(loc))
       THEN /\ out' = out \o <<Msg("PROMPT_LOCATION"), Msg("BOTH_REQUIRED")>>
            /\ Exit(1)
            /\ UNCHANGED <<requests, outcome>>
       ELSE /\ out' = out \o <<Msg("PROMPT_LOCATION"), Msg("SEARCHING")>>
            /\ requests' = requests + 1
            /\ outcome' = Pending
            /\ pc' = "awaiting"
            /\ exitCode' = exitCode
    /\ UNCHANGED <<fs, argv, api_key, again, prompts, searches, message, libVars>>

\* lines 101-114 and 195-196: a response arrived
Respond(content) ==
    /\ pc = "awaiting"
    /\ message' = content
    /\ outcome' = Ok
    /\ out' = out \o search_result(content)
                  \o <<Msg("BLANK_SEPARATOR"), Msg("PROMPT_SEARCH_AGAIN")>>
    /\ pc' = "again"
    /\ UNCHANGED <<fs, argv, api_key, keywords, location, exitCode, requests, again,
                   prompts, searches, libVars>>

RaiseAndRetry(e) ==
    /\ pc = "awaiting"
    /\ requests < MaxSearches
    /\ outcome' = e
    /\ out' = out \o search_error(e)
    /\ requests' = requests + 1
    /\ UNCHANGED <<fs, pc, argv, api_key, keywords, location, exitCode, again, prompts,
                   searches, message, libVars>>

\* lines 116-122: the call raised
Raise(e) ==
    /\ pc = "awaiting"
    /\ outcome' = e
    /\ out' = out \o search_error(e)
    /\ Exit(1)
    /\ UNCHANGED <<fs, argv, api_key, keywords, location, requests, again, prompts,
                   searches, message, libVars>>

\* lines 196-200: 'y' re-enters main in a new frame, whose locals are unset;
\* `out` starts over with it, the counters do not
SearchAgain(raw) ==
    /\ pc = "again"
    /\ again' = Lower(Strip(raw))
    /\ IF Lower(Strip(raw)) = <<"y">>
       THEN /\ searches < MaxSearches
            /\ pc' = "main"
            /\ api_key' = None
            /\ keywords' = <<>>
            /\ location' = <<>>
            /\ message' = <<>>
            /\ out' = <<>>
            /\ exitCode' = exitCode
       ELSE /\ out' = out \o <<Msg("THANK_YOU")>>
            /\ Exit(0)
            /\ UNCHANGED <<api_key, keywords, location, message>>
    /\ UNCHANGED <<fs, argv, requests, outcome, prompts, searches, libVars>>

Next ==
    \/ Help
    \/ \E raw \in KeyInputs : SaveKey(raw)
    \/ ResetKey
    \/ UnknownArg
    \/ \E raw \in KeyInputs : GetKey(raw)
    \/ \E kw \in TermInputs, loc \in TermInputs : EnterSearch(kw, loc)
    \/ \E content \in Contents : Respond(content)
    \/ \E e \in Errors : Raise(e)
    \/ \E raw \in AnswerInputs : SearchAgain(raw)

Spec == Init /\ [][Next]_vars

(***************************************************************************)
(* Properties.                                                             *)
(***************************************************************************)
Has(lines, tag) == \E i \in 1..Len(lines) : lines[i].msg = tag

LastIndexOf(lines, tag) ==
    IF Has(lines, tag)
    THEN CHOOSE i \in 1..Len(lines) :
            /\ lines[i].msg = tag
            /\ \A j \in (i + 1)..Len(lines) : lines[j].msg # tag
    ELSE 0

\* what search_jobs printed after its "Searching ..." line; at the "search again"
\* prompt the last two lines are main's
SearchJobsOut ==
    LET first == LastIndexOf(out, "SEARCHING") + 1
        last == IF pc = "again" THEN Len(out) - 2 ELSE Len(out)
    IN  SubSeq(out, first, last)

IsError(o) == o.cls \notin {"none", "pending", "ok"}

\* the number of api_key members of the object in the file, 0 when there is no such object
CredentialCount(f) ==
    IF ~f.exists \/ ~JsonLoad(f.data).ok \/ JsonLoad(f.data).val.t # "obj" THEN 0
    ELSE Cardinality({i \in 1..Len(JsonLoad(f.data).val.kids) :
                          JsonLoad(f.data).val.kids[i].k = API_KEY})

\* C1: the store is one overwritable slot: after a save of s nothing but s is loaded,
\* whatever was there before; after a remove, and in a store that never held a file,
\* nothing is loaded; what a load call returns is that value; and the file written
\* holds one credential.
C1_SingleSlot ==
    /\ hist.op = "save" => load_api_key(fs) = Str(hist.arg)
    /\ hist.op = "remove" => load_api_key(fs) = None /\ ~fs.exists
    /\ (hist.op = "none" /\ ~fs.exists) => load_api_key(fs) = None
    /\ (lastOp = "load" /\ hist.op = "save") => ret = Str(hist.arg)
    /\ (lastOp = "load" /\ (hist.op = "remove" \/ ~fs.exists)) => ret = None
    /\ hist.op = "save" => CredentialCount(fs) = 1
    /\ hist.op = "remove" => CredentialCount(fs) = 0

\* a load returned a secret that needs escaping, saved over a different secret
C1_Witness ==
    /\ lastOp = "load"
    /\ hist.op = "save"
    /\ hist.over
    /\ ret = Str(hist.arg)
    /\ \E i \in 1..Len(hist.arg) : hist.arg[i] \in {QUOTE, BSL}

\* C2: remove_api_key() with no credential file prints "No API key found to remove."
\* and not the success line, returns, and changes nothing in the file system; a second
\* remove in a row leaves the store as the first left it.
C2_RemoveNothing ==
    /\ [][(lastOp' = "remove" /\ ~fs.exists) =>
            /\ fs' = fs
            /\ out' = <<Msg("NO_KEY_TO_REMOVE")>>
            /\ ret' = None]_vars
    /\ [][(lastOp = "remove" /\ lastOp' = "remove") => fs' = fs]_vars

\* remove was called where a directory but no file was: nothing changed
C2_Witness ==
    /\ lastOp = "remove"
    /\ out = <<Msg("NO_KEY_TO_REMOVE")>>
    /\ fs = NoFile(TRUE)

\* what the config file holds, told from its content alone
Kind(f) ==
    IF ~f.exists THEN "absent"
    ELSE IF \E i \in 1..Len(f.data) : f.data[i] = BAD THEN "unreadable"
    ELSE IF ~JsonLoad(f.data).ok THEN "invalid"
    ELSE IF JsonLoad(f.data).val.t # "obj" THEN "not a mapping"
    ELSE IF CredentialCount(f) = 0 THEN "no api_key"
    ELSE "api_key"

\* C3: load_api_key() returns and never raises; it returns None for a file that is
\* absent, unreadable, not JSON, JSON but no mapping, or a mapping without api_key, so
\* that only a mapping with api_key yields a value; and it leaves the file as it was.
C3_LoadNeverRaises ==
    /\ [](lastOp = "load" =>
            /\ ret # Raised
            /\ Kind(fs) # "api_key" => ret = None
            /\ ret # None => Kind(fs) = "api_key")
    /\ [][lastOp' = "load" => fs' = fs]_vars

\* a load of a file holding valid JSON that is no mapping returned None
C3_Witness ==
    /\ lastOp = "load"
    /\ Kind(fs) = "not a mapping"
    /\ ret = None

\* the case analysis of get_api_key() on a step that calls it, with `present` telling
\* whether the store counts as holding a secret
C4_Step(present) ==
    lastOp' = "get" =>
        IF present
        THEN /\ ret' = load_api_key(fs)
             /\ prompts' = 0
             /\ out' = <<>>
             /\ fs' = fs
        ELSE /\ prompts' = 1
             /\ ret'.t = "str"
             /\ IF ret'.s # <<>>
                THEN /\ load_api_key(fs') = ret'
                     /\ Has(out', "KEY_SAVED")
                ELSE /\ fs' = fs
                     /\ ~Has(out', "KEY_SAVED")
             /\ \E raw \in KeyInputs : ret'.s = Strip(raw)

\* C4 as stated: a secret in the store, the empty string included, is returned without
\* a prompt and without a write.
C4_AsStated == [][C4_Step(load_api_key(fs) # None)]_vars

\* C4: get_api_key() returns the stored value without prompting and without writing
\* whenever that value is true in Python's sense (a non-empty string); otherwise, also
\* when the stored secret is the empty string, it prompts once, persists a non-empty
\* stripped answer before returning it, and on an empty answer returns the empty string
\* and leaves the store unchanged.
C4_GetApiKey == [][C4_Step(Truthy(load_api_key(fs)))]_vars

\* get_api_key() found nothing usable, prompted, and persisted the non-empty answer
C4_Witness ==
    /\ lastOp = "get"
    /\ prompts = 1
    /\ hist.op = "save"
    /\ ~hist.over
    /\ ret = Str(hist.arg)
    /\ load_api_key(fs) = ret

\* the texts of the text segments at positions 1..n of a response, each followed by
\* a newline, in response order
RECURSIVE TextLines(_, _)
TextLines(content, n) ==
    IF n = 0 THEN <<>>
    ELSE TextLines(content, n - 1)
         \o (IF content[n].type = "text" THEN content[n].text \o <<NL>> ELSE <<>>)

\* the newline-joined text segments: the lines without the last newline
Joined(content) ==
    LET lines == TextLines(content, Len(content))
    IN  IF lines = <<>> THEN <<>> ELSE SubSeq(lines, 1, Len(lines) - 1)

HasTextSegment(content) == \E i \in 1..Len(content) : content[i].type = "text"

Framed(text) == <<Msg("SEPARATOR"), MsgText("RESULT", text), Msg("SEPARATOR")>>

\* C5 as stated: a successful response with at least one text segment is printed as a
\* separator, the newline-joined text segments, a separator, without the notice.
C5_AsStated ==
    (pc = "again" /\ HasTextSegment(message)) =>
        /\ SearchJobsOut = Framed(Joined(message))
        /\ ~Has(SearchJobsOut, "NO_RESULTS")

\* C5: a successful response whose text segments join to a non-empty string (one
\* non-empty text segment, or two or more text segments) is printed as a separator,
\* the newline-joined text segments in response order, a separator, without the "no
\* results" notice; non-text segments add nothing.  A response whose only text segment
\* is empty gets the notice instead.
C5_FramedResult ==
    /\ (pc = "again" /\ Joined(message) # <<>>) =>
          /\ SearchJobsOut = Framed(Joined(message))
          /\ ~Has(SearchJobsOut, "NO_RESULTS")
    /\ (pc = "again" /\ HasTextSegment(message) /\ Joined(message) = <<>>) =>
          SearchJobsOut = <<Msg("NO_RESULTS")>>

\* two different text segments around a non-text one were printed, in order
C5_Witness ==
    /\ pc = "again"
    /\ message = <<TextSeg(<<"B">>), ToolSeg, TextSeg(<<"A">>)>>
       \/ message = <<TextSeg(<<"B">>), TextSeg(<<"A">>)>>
    /\ SearchJobsOut = Framed(<<"B", NL, "A">>)

\* C6: a successful response without text segments makes search_jobs print the "no
\* results" notice and no framed block, and return: the process has not exited and
\* main is at its "search again" prompt.
C6_NoResults ==
    (outcome = Ok /\ pc = "again" /\ ~HasTextSegment(message)) =>
        /\ SearchJobsOut = <<Msg("NO_RESULTS")>>
        /\ ~Has(SearchJobsOut, "SEPARATOR")
        /\ ~Has(SearchJobsOut, "RESULT")
        /\ exitCode = -1
        /\ out[Len(out)] = Msg("PROMPT_SEARCH_AGAIN")

\* a response of non-text segments only was received
C6_Witness ==
    /\ pc = "again"
    /\ message = <<ToolSeg>>
    /\ Has(out, "NO_RESULTS")

\* C7: a failed remote call is reported with the credential-reset message exactly when
\* AuthenticationError was raised; any other exception is reported with the generic
\* message carrying its text; either way the exit status is 1.
C7_ErrorClassification ==
    IsError(outcome) =>
        /\ pc = "done"
        /\ exitCode = 1
        /\ Has(SearchJobsOut, "RESET_KEY_HINT") <=> outcome.cls = "AuthenticationError"
        /\ outcome.cls = "AuthenticationError" =>
              SearchJobsOut = <<Msg("INVALID_KEY"), Msg("RESET_KEY_HINT")>>
        /\ outcome.cls # "AuthenticationError" =>
              SearchJobsOut = <<MsgText("ERROR", outcome.text)>>

\* a 403 from the service, which is no AuthenticationError, was reported generically
C7_Witness ==
    /\ outcome.cls = "PermissionDeniedError"
    /\ pc = "done"
    /\ Has(out, "ERROR")

\* both search parameters were asked for, and one of the stripped answers is empty
EnteredEmpty == Has(out, "PROMPT_LOCATION") /\ (keywords = <<>> \/ location = <<>>)

\* C8 as stated: a run without arguments exits 1 exactly when the entered keywords or
\* location is empty or the search raised, and 0 otherwise.
C8_AsStated ==
    (pc = "done" /\ argv = <<>>) =>
        /\ exitCode \in {0, 1}
        /\ exitCode = 1 <=> (EnteredEmpty \/ IsError(outcome))

\* C8: a run without arguments exits 1 exactly when get_api_key() returned no
\* credential (nothing stored and an empty answer to the prompt), or the entered
\* keywords or location is empty, or the search raised; it exits 0 otherwise.
C8_ExitStatus ==
    (pc = "done" /\ argv = <<>>) =>
        /\ exitCode \in {0, 1}
        /\ exitCode = 1 <=>
              \/ ~Truthy(api_key)
              \/ EnteredEmpty
              \/ IsError(outcome)

\* a run ended with status 1 for want of a credential, before any search parameter
C8_Witness ==
    /\ pc = "done"
    /\ argv = <<>>
    /\ exitCode = 1
    /\ Has(out, "KEY_REQUIRED")
    /\ prompts = 1

\* C9: every search sends one request; a failed call ends the process with status 1,
\* with no further request and no "search again" prompt; a further request is sent
\* only after the previous search succeeded and the answer to the prompt was 'y'.
C9_FailureIsTerminal ==
    /\ [](/\ requests <= searches
          /\ pc \in {"awaiting", "again"} => requests = searches
          /\ IsError(outcome) =>
                /\ pc = "done"
                /\ exitCode = 1
                /\ ~Has(SearchJobsOut, "PROMPT_SEARCH_AGAIN"))
    /\ [][IsError(outcome) => requests' = requests]_vars
    /\ [][requests' # requests =>
            /\ requests' = requests + 1
            /\ requests = 0 \/ (outcome = Ok /\ again = <<"y">>)]_vars

\* the second search of a run failed
C9_Witness ==
    /\ requests = 2
    /\ searches = 2
    /\ IsError(outcome)
    /\ again = <<"y">>
    /\ pc = "done"

\* C10: a request is sent only in a run without arguments and only with a credential
\* that is not empty and stripped keywords and location that are not empty; a run with
\* an argument sends none; and search_jobs leaves the credential file as it is, also
\* after an authentication failure.
C10_RequestGuard ==
    /\ [](/\ pc = "awaiting" =>
                /\ argv = <<>>
                /\ Truthy(api_key)
                /\ keywords # <<>> /\ keywords = Strip(keywords)
                /\ location # <<>> /\ location = Strip(location)
          /\ requests > 0 => argv = <<>>
          /\ outcome # NoCall => requests > 0)
    /\ [][requests' # requests =>
            Truthy(api_key) /\ keywords' # <<>> /\ location' # <<>>]_vars
    /\ [][pc = "awaiting" => fs' = fs]_vars

\* a request is out with the credential the operator has just typed in
C10_Witness ==
    /\ pc = "awaiting"
    /\ prompts = 1
    /\ api_key = Str(<<QUOTE, BSL>>)
    /\ load_api_key(fs) = api_key

====
